---- MODULE Spec2Model ----
(***************************************************************************)
(* Batch ingestion pipeline of templates/batch_ingestion/runner.py:        *)
(* the retry wrapper, the two storage adapters, the runner's construction  *)
(* and run_once / _transform as a step machine, run in sequence and by two *)
(* processes at once; run_cmd of tools/runner.py with the MCP tools built  *)
(* on it (mcp_server.py); the agentic loop of coding_agent/agent.py.       *)
(*                                                                         *)
(* A path is a sequence of tokens: the separators "/" and ".", the scheme  *)
(* "s3://" and names without separators ("in", "csv", "out", ...).         *)
(* A source / destination spec is a Python dict: a TLA+ record whose       *)
(* DOMAIN is the set of keys present.                                      *)
(***************************************************************************)
EXTENDS Integers, Sequences, FiniteSets, TLC

\* ------------------------------------------------------------------ bounds

\* Number of run_once calls made on one runner (one "process" per call).
NumCalls == 2

\* Largest max_retries the retry wrapper is exercised with on its own.
MaxWrapRetries == 3

\* Largest max_loops a Task is given.
MaxLoops == 3

\* ------------------------------------------------------- program constants

\* retry(fn, max_retries=3, delay=1.0, backoff=2.0)
RetryDefaultMaxRetries == 3
RetryDefaultDelay == 1
RetryDefaultBackoff == 2

\* self.options.get("max_retries", 3)
OptionsDefaultMaxRetries == 3

\* ---------------------------------------------------------------- strings

SEP == "/"
DOT == "."

\* str.rfind: the last index of token c in s, 0 when absent.
LastIndexOf(s, c) ==
    LET idx == {i \in 1..Len(s) : s[i] = c}
    IN  IF idx = {} THEN 0 ELSE CHOOSE i \in idx : \A j \in idx : j <= i

EndsWith(s, c) == Len(s) > 0 /\ s[Len(s)] = c

\* os.path.basename: what follows the last separator.
basename(p) == SubSeq(p, LastIndexOf(p, SEP) + 1, Len(p))

\* os.path.splitext: <<root, ext>>; the extension starts at the last dot of
\* the last component, unless only dots precede it there.
splitext(p) ==
    LET sepIndex == LastIndexOf(p, SEP)
        dotIndex == LastIndexOf(p, DOT)
    IN  IF /\ dotIndex > sepIndex
           /\ \E i \in (sepIndex + 1)..(dotIndex - 1) : p[i] # DOT
        THEN <<SubSeq(p, 1, dotIndex - 1), SubSeq(p, dotIndex, Len(p))>>
        ELSE <<p, <<>>>>

\* os.path.dirname: what precedes the last separator.
dirname(p) == SubSeq(p, 1, LastIndexOf(p, SEP) - 1)

\* Faulty variant of join: the components are concatenated as they are.
join_flat(a, b) == a \o b

\* os.path.join(a, b) for two components.
join(a, b) ==
    IF Len(b) > 0 /\ b[1] = SEP THEN b
    ELSE IF a = <<>> \/ EndsWith(a, SEP) THEN a \o b
    ELSE a \o <<SEP>> \o b

\* ------------------------------------------------------------------ dicts

\* bool(d.get(k)): the key is present and its value is not the empty string.
Truthy(d, k) == k \in DOMAIN d /\ d[k] # <<>>

\* d.get(k) or "": the value when truthy, else the empty string.
GetOrEmpty(d, k) == IF Truthy(d, k) THEN d[k] ELSE <<>>

\* f"{d.get(k)}": a missing key formats as the text None.
Format(d, k) == IF k \in DOMAIN d THEN d[k] ELSE <<"None">>

\* spec.get("type", "local")
TypeOf(spec) == IF "type" \in DOMAIN spec THEN spec["type"] ELSE "local"

\* ---------------------------------------------------------- retry wrapper

RECURSIVE Pow(_, _)
Pow(b, n) == IF n <= 0 THEN 1 ELSE b * Pow(b, n - 1)

\* Faulty variant of the budget test: one attempt short.
RetryExhausted_early(tries, max_retries) == tries >= max_retries

\* `if tries > max_retries: raise`, tries being the count after this failure.
RetryExhausted(tries, max_retries) == tries > max_retries

\* sleep = delay * (backoff ** (tries - 1))
RetrySleep(tries, delay, backoff) == delay * Pow(backoff, tries - 1)

\* One invocation of wrapper(*args): tries = 0, nothing called yet.
RetryEnter(max_retries, delay, backoff) ==
    [max_retries |-> max_retries, delay |-> delay, backoff |-> backoff,
     tries |-> 0, calls |-> 0, sleeps |-> <<>>, state |-> "running"]

\* A wrapper that is not running (an undecorated call, or none yet).
RetryIdle ==
    [max_retries |-> 0, delay |-> 0, backoff |-> 0,
     tries |-> 0, calls |-> 0, sleeps |-> <<>>, state |-> "idle"]

\* fn(*args) returned: the wrapper returns its value.
RetryOnReturn(w) == [w EXCEPT !.calls = @ + 1, !.state = "returned"]

\* fn(*args) raised: count the failure, then re-raise or sleep and loop.
RetryOnRaise(w) ==
    LET t == w.tries + 1
    IN  IF RetryExhausted(t, w.max_retries)
        THEN [w EXCEPT !.calls = @ + 1, !.tries = t, !.state = "raised"]
        ELSE [w EXCEPT !.calls = @ + 1, !.tries = t,
                       !.sleeps = Append(@, RetrySleep(t, w.delay, w.backoff))]

\* ----------------------------------------------------------- configuration

SrcKey == <<"d", SEP, "in", DOT, "csv">>

\* config.source documents.
SourceSpecs ==
    { [type |-> "s3", s3_bucket |-> <<"sb">>, s3_key |-> SrcKey],
      [type |-> "s3", s3_key |-> SrcKey],
      [type |-> "s3", s3_bucket |-> <<"sb">>],
      [type |-> "s3", s3_bucket |-> <<>>, s3_key |-> SrcKey],
      [type |-> "local", local_path |-> SrcKey],
      [type |-> "local", local_path |-> <<"in">>],
      [type |-> "local", local_path |-> <<>>],
      [type |-> "local"],
      [local_path |-> <<"in", DOT, "csv">>],
      [type |-> "s4", local_path |-> <<"in", DOT, "tar", DOT, "csv">>] }

\* config.destination documents.
DestSpecs ==
    { [type |-> "s3", s3_bucket |-> <<"db">>, s3_key_prefix |-> <<"out">>],
      [type |-> "s3", s3_bucket |-> <<"db">>, s3_key_prefix |-> <<"out", SEP>>],
      [type |-> "s3", s3_bucket |-> <<"db">>],
      [type |-> "s3", s3_key_prefix |-> <<"out">>],
      [type |-> "local", local_path |-> <<"out">>],
      [type |-> "local", local_path |-> <<"out", SEP>>],
      [type |-> "local"],
      [local_path |-> <<"out">>],
      [type |-> "s4", s3_key_prefix |-> <<"pre">>, local_path |-> <<"out">>] }

\* config.options documents.
OptionSpecs ==
    { [x \in {} |-> 0],
      [overwrite |-> TRUE],
      [max_retries |-> 1],
      [overwrite |-> TRUE, max_retries |-> 1],
      [overwrite |-> FALSE, max_retries |-> 3] }

\* PipelineConfig.from_dict
PipelineConfig(source, destination, options) ==
    [source |-> source, destination |-> destination, options |-> options]

\* Faulty variant of _adapter_for: every type but "local" is object storage.
adapter_for_nonlocal(spec) ==
    IF TypeOf(spec) # "local" THEN "S3StorageAdapter" ELSE "LocalStorageAdapter"

\* BatchIngestionRunner._adapter_for
adapter_for(spec) ==
    IF TypeOf(spec) = "s3" THEN "S3StorageAdapter" ELSE "LocalStorageAdapter"

\* BatchIngestionRunner.__init__
BatchIngestionRunner(cfg) ==
    [max_retries |-> IF "max_retries" \in DOMAIN cfg.options
                     THEN cfg.options["max_retries"]
                     ELSE OptionsDefaultMaxRetries,
     overwrite |-> IF "overwrite" \in DOMAIN cfg.options
                   THEN cfg.options["overwrite"]
                   ELSE FALSE,
     source_adapter |-> adapter_for(cfg.source),
     dest_adapter |-> adapter_for(cfg.destination)]

\* ------------------------------------------------------------------- state

Procs == 1..NumCalls

\* Content of the object at the derived destination path: nothing there, a
\* file just created or truncated, a file cut short, the bytes of two writers.
Absent == "absent"
Empty == "empty"
Partial == "partial"
Mixed == "mixed"

VARIABLES
    config,             \* the PipelineConfig the runner was built from
    runner,             \* the runner's fields set by __init__
    pd,                 \* module global: the tabular library was imported
    parquet_available,  \* module global _parquet_available
    src_exists,         \* the local source file is on disk
    dest_obj,           \* what the destination path holds (Absent or content)
    dest_dir,           \* the local destination directory exists
    dest_files,         \* paths of the files in the local destination tree
    frame,              \* per call of run_once: its position and locals; landed
                        \* is the rank of its upload among the completed ones
    wrapper,            \* a retry wrapper exercised on its own
    shell,              \* tools/runner.py: the run_cmd calls of one tool call
    task                \* coding_agent/agent.py: one Task and what it has done

vars == <<config, runner, pd, parquet_available, src_exists, dest_obj,
          dest_dir, dest_files, frame, wrapper, shell, task>>

env == <<config, runner, pd, parquet_available, src_exists, shell, task>>

\* No Task has been constructed.
TaskIdle == [pc |-> "none"]

\* No tool has been called.
ShellIdle == [op |-> "", dry_run |-> "", log |-> <<>>]

\* The locals of a run_once call that has not started.
NewFrame ==
    [pc |-> "start", source_path |-> <<>>, dest_path |-> <<>>,
     tmp_src |-> "", tmp_out |-> "", tmpfiles |-> {}, trace |-> <<>>,
     tiers |-> <<>>, dl |-> RetryIdle, ul |-> RetryIdle, probe |-> "",
     error |-> "", result |-> [status |-> "", dest |-> <<>>],
     dest_before |-> Absent, dir_before |-> FALSE, landed |-> 0, head |-> ""]

\* How many uploads of calls in progress have completed.
Landed == Cardinality({q \in Procs : frame[q].landed > 0})

\* -------------------------------------------------- destination derivation

PARQUET == <<DOT, "parquet">>

\* Faulty variant: the prefix is concatenated as configured.
NormalizePrefix_raw(dest_prefix) == dest_prefix

\* `if dest_prefix and not dest_prefix.endswith("/")`: append the separator.
NormalizePrefix(dest_prefix) ==
    IF dest_prefix # <<>> /\ ~EndsWith(dest_prefix, SEP)
    THEN dest_prefix \o <<SEP>>
    ELSE dest_prefix

\* BatchIngestionRunner._derive_destination_key: the path it returns.
derive_destination_key(destination, source_path) ==
    LET src_name == basename(source_path)
        dest_prefix == IF Truthy(destination, "s3_key_prefix")
                       THEN destination["s3_key_prefix"]
                       ELSE GetOrEmpty(destination, "local_path")
        dest_name == splitext(src_name)[1] \o PARQUET
    IN  IF "type" \in DOMAIN destination /\ destination["type"] = "s3"
        THEN <<"s3://">> \o Format(destination, "s3_bucket") \o <<SEP>>
                 \o NormalizePrefix(dest_prefix) \o dest_name
        ELSE join(IF dest_prefix # <<>> THEN dest_prefix ELSE <<DOT>>, dest_name)

\* ----------------------------------------------------------------- initial

\* Lines 216-226: the source path a complete source spec resolves to.
SourcePath(src) ==
    IF TypeOf(src) = "s3"
    THEN <<"s3://">> \o Format(src, "s3_bucket") \o <<SEP>> \o Format(src, "s3_key")
    ELSE GetOrEmpty(src, "local_path")

\* The local destination tree at the start: the file at the derived path
\* when there is one, nothing else.
InitialFiles(cfg, adapter, obj) ==
    IF adapter = "LocalStorageAdapter" /\ obj # Absent
    THEN {derive_destination_key(cfg.destination, SourcePath(cfg.source))}
    ELSE {}

\* Line 201: the directory a local destination writes under; empty stands
\* for the working directory, which is always there.
DestPrefix(destination) ==
    IF Truthy(destination, "s3_key_prefix")
    THEN destination["s3_key_prefix"]
    ELSE GetOrEmpty(destination, "local_path")

Init ==
    /\ \E s \in SourceSpecs, d \in DestSpecs, o \in OptionSpecs :
           config = PipelineConfig(s, d, o)
    /\ runner = BatchIngestionRunner(config)
    /\ pd \in BOOLEAN
    /\ parquet_available \in BOOLEAN
    /\ src_exists \in (IF runner.source_adapter = "LocalStorageAdapter"
                       THEN BOOLEAN ELSE {FALSE})
    /\ dest_obj \in {Absent, "old"}
    /\ dest_dir \in (IF runner.dest_adapter = "S3StorageAdapter" THEN {FALSE}
                     ELSE IF dest_obj # Absent \/ DestPrefix(config.destination) = <<>>
                          THEN {TRUE}
                     ELSE BOOLEAN)
    /\ dest_files = InitialFiles(config, runner.dest_adapter, dest_obj)
    /\ frame = [p \in Procs |-> NewFrame]
    /\ wrapper = RetryIdle
    /\ shell = ShellIdle
    /\ task = TaskIdle

\* ------------------------------------------------------------ run_once

\* Calls are made one after the other: a call starts once the ones before
\* it have handed their result back.
Turn(p) == \A q \in 1..(p - 1) : frame[q].pc = "returned"

\* Faulty variant of raise: the failure is swallowed and a result returned.
Raise_swallowed(f, e) ==
    [f EXCEPT !.pc = "done", !.result = [status |-> "success", dest |-> f.dest_path]]

\* raise: the call ends with the exception.
Raise(f, e) == [f EXCEPT !.pc = "done", !.error = e]

\* `if not bucket or not key` (line 220) with its mutation: a source that
\* passes as soon as one of the two fields is there.
S3SourceIncomplete_either(src) ==
    ~Truthy(src, "s3_bucket") /\ ~Truthy(src, "s3_key")

S3SourceIncomplete(src) ==
    ~Truthy(src, "s3_bucket") \/ ~Truthy(src, "s3_key")

\* `if not source_path` (line 225)
LocalSourceIncomplete(src) == ~Truthy(src, "local_path")

\* Lines 214-226: the source path, or ValueError for a missing field.
Resolve(p) ==
    /\ frame[p].pc = "start"
    /\ LET src == config.source
           f == [frame[p] EXCEPT !.trace = Append(@, "resolve"),
                                 !.dest_before = dest_obj,
                                 !.dir_before = dest_dir]
       IN  frame' = [frame EXCEPT ![p] =
             IF TypeOf(src) = "s3"
             THEN IF S3SourceIncomplete(src)
                  THEN Raise(f, "ValueError")
                  ELSE [f EXCEPT !.pc = "derive",
                                 !.source_path = <<"s3://">> \o Format(src, "s3_bucket")
                                                  \o <<SEP>> \o Format(src, "s3_key")]
             ELSE IF LocalSourceIncomplete(src)
                  THEN Raise(f, "ValueError")
                  ELSE [f EXCEPT !.pc = "derive",
                                 !.source_path = src["local_path"]]]
    /\ UNCHANGED <<env, dest_obj, dest_dir, dest_files, wrapper>>

\* Faulty variant: the run goes on to staging without the idempotency check.
Derive_unchecked(p) ==
    /\ frame[p].pc = "derive"
    /\ frame' = [frame EXCEPT ![p].pc = "stage",
                              ![p].trace = Append(@, "derive"),
                              ![p].dest_path =
                                  derive_destination_key(config.destination,
                                                         frame[p].source_path)]
    /\ dest_dir' = dest_dir
    /\ UNCHANGED <<env, dest_obj, dest_files, wrapper>>

\* Line 228: the destination path; a local destination has its directory made.
Derive(p) ==
    /\ frame[p].pc = "derive"
    /\ frame' = [frame EXCEPT ![p].pc = "check",
                              ![p].trace = Append(@, "derive"),
                              ![p].dest_path =
                                  derive_destination_key(config.destination,
                                                         frame[p].source_path)]
    /\ dest_dir' = IF "type" \in DOMAIN config.destination
                      /\ config.destination["type"] = "s3"
                   THEN dest_dir ELSE TRUE
    /\ UNCHANGED <<env, dest_obj, dest_files, wrapper>>

\* Faulty variant of the idempotency test: the flag read the wrong way round.
ShouldSkip_inverted(exists, overwrite) == exists /\ overwrite

\* `self.dest_adapter.exists(dest_path) and not self.overwrite`
ShouldSkip(exists, overwrite) == exists /\ ~overwrite

\* Faulty variant of exists: the local adapter never finds the path.
ExistsOutcomes_blind(adapter, obj) ==
    IF adapter = "LocalStorageAdapter"
    THEN {"false"}
    ELSE {IF obj # Absent THEN "true" ELSE "false", "error"}

\* The error codes S3StorageAdapter.exists takes for "no such object".
NotFoundCodes == {"404", "NoSuchKey", "NotFound"}

\* What head_object can answer for a key: "ok" when the object is there, a
\* not-found code when it is not, and at any time another error (403 here).
HeadResponses(obj) ==
    (IF obj # Absent THEN {"ok"} ELSE NotFoundCodes) \cup {"403"}

\* Faulty variant of S3StorageAdapter.exists: every ClientError means absent.
S3Exists_lenient(response) ==
    IF response = "ok" THEN "true" ELSE "false"

\* S3StorageAdapter.exists: True when head_object returns, False for a
\* ClientError with a not-found code, any other error is re-raised.
S3Exists(response) ==
    IF response = "ok" THEN "true"
    ELSE IF response \in NotFoundCodes THEN "false"
    ELSE "error"

\* What exists(path) can answer. LocalStorageAdapter: os.path.exists.
\* S3StorageAdapter: what exists makes of head_object's response.
ExistsOutcomes(adapter, obj) ==
    IF adapter = "LocalStorageAdapter"
    THEN {IF obj # Absent THEN "true" ELSE "false"}
    ELSE {S3Exists(r) : r \in HeadResponses(obj)}

\* The head_object responses behind the answer o of exists (none for a local
\* destination).
ResponsesFor(adapter, obj, o) ==
    IF adapter = "LocalStorageAdapter" THEN {""}
    ELSE {r \in HeadResponses(obj) : S3Exists(r) = o}

\* Faulty variant of the idempotency check: the flag is tested first and the
\* probe is skipped when overwrite is set.
ExistsCheck_lazy(p) ==
    /\ frame[p].pc = "check"
    /\ IF runner.overwrite
       THEN frame' = [frame EXCEPT ![p].pc = "stage"]
       ELSE \E o \in ExistsOutcomes(runner.dest_adapter, dest_obj) :
            \E r \in ResponsesFor(runner.dest_adapter, dest_obj, o) :
              LET f == [frame[p] EXCEPT !.trace = Append(@, "exists"),
                                        !.probe = o, !.head = r]
              IN  frame' = [frame EXCEPT ![p] =
                    IF o = "error" THEN Raise(f, "ClientError")
                    ELSE IF ShouldSkip(o = "true", runner.overwrite)
                    THEN [f EXCEPT !.pc = "done",
                                   !.result = [status |-> "skipped",
                                               dest |-> f.dest_path]]
                    ELSE [f EXCEPT !.pc = "stage"]]
    /\ UNCHANGED <<env, dest_obj, dest_dir, dest_files, wrapper>>

\* Faulty variant of the idempotency check: with overwrite set an existing
\* destination object is deleted on the spot.
ExistsCheck_clearing(p) ==
    /\ frame[p].pc = "check"
    /\ \E o \in ExistsOutcomes(runner.dest_adapter, dest_obj) :
       \E r \in ResponsesFor(runner.dest_adapter, dest_obj, o) :
         LET f == [frame[p] EXCEPT !.trace = Append(@, "exists"), !.probe = o,
                                   !.head = r]
         IN  /\ frame' = [frame EXCEPT ![p] =
                   IF o = "error" THEN Raise(f, "ClientError")
                   ELSE IF ShouldSkip(o = "true", runner.overwrite)
                   THEN [f EXCEPT !.pc = "done",
                                  !.result = [status |-> "skipped",
                                              dest |-> f.dest_path]]
                   ELSE [f EXCEPT !.pc = "stage"]]
             /\ dest_obj' = IF o = "true" /\ runner.overwrite THEN Absent
                            ELSE dest_obj
    /\ UNCHANGED <<env, dest_dir, dest_files, wrapper>>

\* Lines 231-234: the idempotency check.
ExistsCheck(p) ==
    /\ frame[p].pc = "check"
    /\ \E o \in ExistsOutcomes(runner.dest_adapter, dest_obj) :
       \E r \in ResponsesFor(runner.dest_adapter, dest_obj, o) :
         LET f == [frame[p] EXCEPT !.trace = Append(@, "exists"), !.probe = o,
                                   !.head = r]
         IN  frame' = [frame EXCEPT ![p] =
               IF o = "error" THEN Raise(f, "ClientError")
               ELSE IF ShouldSkip(o = "true", runner.overwrite)
               THEN [f EXCEPT !.pc = "done",
                              !.result = [status |-> "skipped",
                                          dest |-> f.dest_path]]
               ELSE [f EXCEPT !.pc = "stage"]]
    /\ UNCHANGED <<env, dest_obj, dest_dir, dest_files, wrapper>>

\* Line 237: tmp_src = self._local_temp(...), a fresh file on disk. The
\* response exists looked at is gone with its frame.
Stage(p) ==
    /\ frame[p].pc = "stage"
    /\ frame' = [frame EXCEPT ![p].pc = "download",
                              ![p].head = "",
                              ![p].tmp_src = "tmp_src",
                              ![p].tmpfiles = @ \cup {"tmp_src"},
                              ![p].trace = Append(@, "mkstemp")]
    /\ UNCHANGED <<env, dest_obj, dest_dir, dest_files, wrapper>>

\* Faulty variant: the decorated method is entered with no retry at all.
Decorated_once(w) ==
    IF w.state = "idle"
    THEN RetryEnter(0, RetryDefaultDelay, RetryDefaultBackoff)
    ELSE w

\* The wrapper state of a decorated adapter method on an attempt: entered with
\* the decorator's defaults on the first one (`@retry` has no arguments).
Decorated(w) ==
    IF w.state = "idle"
    THEN RetryEnter(RetryDefaultMaxRetries, RetryDefaultDelay, RetryDefaultBackoff)
    ELSE w

\* Lines 238-242 with LocalStorageAdapter.download: one copy, or
\* FileNotFoundError when the source is missing.
LocalDownload(p) ==
    /\ frame[p].pc = "download"
    /\ runner.source_adapter = "LocalStorageAdapter"
    /\ LET f == [frame[p] EXCEPT !.trace = Append(@, "download")]
       IN  frame' = [frame EXCEPT ![p] =
             IF src_exists THEN [f EXCEPT !.pc = "transform"]
             ELSE Raise(f, "FileNotFoundError")]
    /\ UNCHANGED <<env, dest_obj, dest_dir, dest_files, wrapper>>

\* Lines 238-242 with S3StorageAdapter.download: one attempt of the decorated
\* method; it returns, or raises and is retried or re-raised by the wrapper.
S3Download(p) ==
    /\ frame[p].pc = "download"
    /\ runner.source_adapter = "S3StorageAdapter"
    /\ \E ok \in BOOLEAN :
         LET w == IF ok THEN RetryOnReturn(Decorated(frame[p].dl))
                        ELSE RetryOnRaise(Decorated(frame[p].dl))
             f == [frame[p] EXCEPT !.trace = Append(@, "download"), !.dl = w]
         IN  frame' = [frame EXCEPT ![p] =
               IF w.state = "returned" THEN [f EXCEPT !.pc = "transform"]
               ELSE IF w.state = "raised" THEN Raise(f, "ClientError")
               ELSE f]
    /\ UNCHANGED <<env, dest_obj, dest_dir, dest_files, wrapper>>

\* _transform, lines 271-289: without the tabular library the staged file is
\* gzipped next to itself; with it the CSV is parsed, and a parse error is
\* raised to run_once.
TransformRead(p) ==
    /\ frame[p].pc = "transform"
    /\ LET f == [frame[p] EXCEPT !.trace = Append(@, "transform")]
       IN  IF ~pd
           THEN frame' = [frame EXCEPT ![p] =
                  [f EXCEPT !.pc = "upload",
                            !.tiers = Append(@, "gz"),
                            !.tmp_out = "tmp_src.gz",
                            !.tmpfiles = @ \cup {"tmp_src.gz"}]]
           ELSE \E parsed \in BOOLEAN :
                  frame' = [frame EXCEPT ![p] =
                    IF parsed THEN [f EXCEPT !.pc = "serialize"]
                    ELSE Raise(f, "ParserError")]
    /\ UNCHANGED <<env, dest_obj, dest_dir, dest_files, wrapper>>

\* _transform, lines 292-296 and 303-308: a temp file for the tier the module
\* globals select, then the write; a failed parquet write goes to the handler.
TransformWrite(p) ==
    /\ frame[p].pc = "serialize"
    /\ IF parquet_available
       THEN \E written \in BOOLEAN :
              frame' = [frame EXCEPT ![p].tiers = Append(@, "parquet"),
                                     ![p].tmp_out = "tmp.parquet",
                                     ![p].tmpfiles = @ \cup {"tmp.parquet"},
                                     ![p].pc = IF written THEN "upload"
                                               ELSE "fallback"]
       ELSE frame' = [frame EXCEPT ![p].tiers = Append(@, "csv.gz"),
                                   ![p].tmp_out = "tmp.csv.gz",
                                   ![p].tmpfiles = @ \cup {"tmp.csv.gz"},
                                   ![p].pc = "upload"]
    /\ UNCHANGED <<env, dest_obj, dest_dir, dest_files, wrapper>>

\* Faulty variant of the handler: the parquet failure is raised to run_once.
TransformFallback_fatal(p) ==
    /\ frame[p].pc = "fallback"
    /\ frame' = [frame EXCEPT ![p] = Raise(frame[p], "ArrowError")]
    /\ UNCHANGED <<env, dest_obj, dest_dir, dest_files, wrapper>>

\* Faulty variant of the handler: out_path is not rebound.
TransformFallback_keep(p) ==
    /\ frame[p].pc = "fallback"
    /\ frame' = [frame EXCEPT ![p].tiers = Append(@, "csv.gz"),
                              ![p].pc = "upload"]
    /\ UNCHANGED <<env, dest_obj, dest_dir, dest_files, wrapper>>

\* _transform, lines 297-302: the handler of a failed parquet write rebinds
\* out_path to a second temp file and writes the gzipped CSV there.
TransformFallback(p) ==
    /\ frame[p].pc = "fallback"
    /\ frame' = [frame EXCEPT ![p].tiers = Append(@, "csv.gz"),
                              ![p].tmp_out = "tmp.csv.gz",
                              ![p].tmpfiles = @ \cup {"tmp.csv.gz"},
                              ![p].pc = "upload"]
    /\ UNCHANGED <<env, dest_obj, dest_dir, dest_files, wrapper>>

\* The file name of a temp file: mkstemp's random stem with the suffix asked
\* for (the source's extension at line 237, the tier's at lines 292 and 300),
\* and local_src_path + ".gz" at line 277.
TempPath(name, source_path) ==
    CASE name = "tmp_src" -> <<"tmp">> \o splitext(source_path)[2]
      [] name = "tmp_src.gz" -> <<"tmp">> \o splitext(source_path)[2] \o <<DOT, "gz">>
      [] name = "tmp.parquet" -> <<"tmp", DOT, "parquet">>
      [] name = "tmp.csv.gz" -> <<"tmp", DOT, "csv", DOT, "gz">>
      [] OTHER -> <<>>

\* The bytes of tmp_out: written by the last tier attempted.
Content(f) == f.tiers[Len(f.tiers)]

\* Lines 252-256 with LocalStorageAdapter.upload, lines 88-90: makedirs, then
\* both files are opened. It can fail before the destination is opened
\* (nothing changes); open(remote_path, "wb") creates or truncates it.
LocalUpload(p) ==
    /\ frame[p].pc = "upload"
    /\ runner.dest_adapter = "LocalStorageAdapter"
    /\ \E opened \in BOOLEAN :
         /\ frame' = [frame EXCEPT ![p].trace = Append(@, "upload"),
                                   ![p].pc = IF opened THEN "write" ELSE "cleanup",
                                   ![p].error = IF opened THEN "" ELSE "OSError"]
         /\ dest_obj' = IF opened THEN Empty ELSE dest_obj
         /\ dest_dir' = IF opened THEN TRUE ELSE dest_dir
         /\ dest_files' = IF opened THEN dest_files \cup {frame[p].dest_path}
                          ELSE dest_files
    /\ UNCHANGED <<env, wrapper>>

\* Faulty variant of the write: nothing reaches the file.
WriteOver_nothing(current, data) == {current}

\* What the file holds after wf.write(data) from offset 0 of a handle opened
\* with "wb": data, when the file was empty or held the same bytes; when
\* another handle has written other bytes since, data followed by whatever
\* of them lies beyond its length.
WriteOver(current, data) ==
    IF current \in {Empty, data} THEN {data} ELSE {data, Mixed}

\* LocalStorageAdapter.upload, line 91: wf.write(rf.read()). The write goes
\* through, or fails having written nothing or a part.
LocalUploadWrite(p) ==
    /\ frame[p].pc = "write"
    /\ \E ok \in BOOLEAN :
         /\ frame' = [frame EXCEPT
                        ![p].pc = "cleanup",
                        ![p].error = IF ok THEN "" ELSE "OSError",
                        ![p].landed = IF ok THEN Landed + 1 ELSE @]
         /\ dest_obj' \in (IF ok THEN WriteOver(dest_obj, Content(frame[p]))
                           ELSE {dest_obj, Partial})
    /\ UNCHANGED <<env, dest_dir, dest_files, wrapper>>

\* Lines 252-256 with S3StorageAdapter.upload: one attempt of the decorated
\* method; upload_file puts the whole object or fails.
S3Upload(p) ==
    /\ frame[p].pc = "upload"
    /\ runner.dest_adapter = "S3StorageAdapter"
    /\ \E ok \in BOOLEAN :
         LET w == IF ok THEN RetryOnReturn(Decorated(frame[p].ul))
                        ELSE RetryOnRaise(Decorated(frame[p].ul))
             f == [frame[p] EXCEPT !.trace = Append(@, "upload"), !.ul = w]
         IN  /\ frame' = [frame EXCEPT ![p] =
                   IF w.state = "returned"
                   THEN [f EXCEPT !.pc = "cleanup", !.landed = Landed + 1]
                   ELSE IF w.state = "raised"
                   THEN [f EXCEPT !.pc = "cleanup", !.error = "ClientError"]
                   ELSE f]
             /\ dest_obj' = IF ok THEN Content(frame[p]) ELSE dest_obj
    /\ UNCHANGED <<env, dest_dir, dest_files, wrapper>>

\* Faulty variant of the finally block: a failed removal is raised.
Cleanup_fatal(p) ==
    /\ frame[p].pc = "cleanup"
    /\ \E stuck \in SUBSET {frame[p].tmp_src, frame[p].tmp_out} :
         LET f == [frame[p] EXCEPT
                     !.trace = Append(@, "cleanup"),
                     !.tmpfiles = @ \ ({frame[p].tmp_src, frame[p].tmp_out} \ stuck),
                     !.error = IF stuck # {} THEN "OSError" ELSE @]
         IN  frame' = [frame EXCEPT ![p] =
               IF f.error # "" THEN [f EXCEPT !.pc = "done"]
               ELSE [f EXCEPT !.pc = "done",
                              !.result = [status |-> "success",
                                          dest |-> f.dest_path]]]
    /\ UNCHANGED <<env, dest_obj, dest_dir, dest_files, wrapper>>

\* Lines 257-267: the finally block removes tmp_src and tmp_out (a failed
\* removal is logged and the file stays), then the upload's exception
\* propagates or the success result is returned.
Cleanup(p) ==
    /\ frame[p].pc = "cleanup"
    /\ \E stuck \in SUBSET {frame[p].tmp_src, frame[p].tmp_out} :
         LET f == [frame[p] EXCEPT
                     !.trace = Append(@, "cleanup"),
                     !.tmpfiles = @ \ ({frame[p].tmp_src, frame[p].tmp_out} \ stuck)]
         IN  frame' = [frame EXCEPT ![p] =
               IF f.error # "" THEN [f EXCEPT !.pc = "done"]
               ELSE [f EXCEPT !.pc = "done",
                              !.result = [status |-> "success",
                                          dest |-> f.dest_path]]]
    /\ UNCHANGED <<env, dest_obj, dest_dir, dest_files, wrapper>>

\* main, lines 321-322: the caller has the result (or the exception); the
\* call's locals are gone.
Return(p) ==
    /\ frame[p].pc = "done"
    /\ frame' = [frame EXCEPT ![p] =
                   [NewFrame EXCEPT !.pc = "returned",
                                    !.error = frame[p].error,
                                    !.result = frame[p].result]]
    /\ UNCHANGED <<env, dest_obj, dest_dir, dest_files, wrapper>>

\* One run_once call after the other on the same runner.
Next ==
    \/ \E p \in Procs : Turn(p) /\ Resolve(p)
    \/ \E p \in Procs : Turn(p) /\ Derive(p)
    \/ \E p \in Procs : Turn(p) /\ ExistsCheck(p)
    \/ \E p \in Procs : Turn(p) /\ Stage(p)
    \/ \E p \in Procs : Turn(p) /\ LocalDownload(p)
    \/ \E p \in Procs : Turn(p) /\ S3Download(p)
    \/ \E p \in Procs : Turn(p) /\ TransformRead(p)
    \/ \E p \in Procs : Turn(p) /\ TransformWrite(p)
    \/ \E p \in Procs : Turn(p) /\ TransformFallback(p)
    \/ \E p \in Procs : Turn(p) /\ LocalUpload(p)
    \/ \E p \in Procs : Turn(p) /\ LocalUploadWrite(p)
    \/ \E p \in Procs : Turn(p) /\ S3Upload(p)
    \/ \E p \in Procs : Turn(p) /\ Cleanup(p)
    \/ \E p \in Procs : Turn(p) /\ Return(p)

Spec == Init /\ [][Next]_vars

\* ------------------------------------------- the retry wrapper on its own

WrapDelays == {1, 2}
WrapBackoffs == {1, 2, 3}

\* wrapper = retry(fn, max_retries, delay, backoff) is called once; the
\* runner does not run.
WrapInit ==
    /\ config = PipelineConfig([type |-> "local"], [type |-> "local"],
                               [overwrite |-> FALSE])
    /\ runner = BatchIngestionRunner(config)
    /\ pd = FALSE
    /\ parquet_available = FALSE
    /\ src_exists = FALSE
    /\ dest_obj = Absent
    /\ dest_dir = FALSE
    /\ dest_files = {}
    /\ frame = [p \in Procs |-> NewFrame]
    /\ \E m \in 0..MaxWrapRetries, d \in WrapDelays, b \in WrapBackoffs :
           wrapper = RetryEnter(m, d, b)
    /\ shell = ShellIdle
    /\ task = TaskIdle

\* Line 51: fn(*args, **kwargs) returns.
WrapperReturns ==
    /\ wrapper.state = "running"
    /\ wrapper' = RetryOnReturn(wrapper)
    /\ UNCHANGED <<env, dest_obj, dest_dir, dest_files, frame>>

\* Lines 52-59: fn(*args, **kwargs) raises.
WrapperRaises ==
    /\ wrapper.state = "running"
    /\ wrapper' = RetryOnRaise(wrapper)
    /\ UNCHANGED <<env, dest_obj, dest_dir, dest_files, frame>>

WrapNext == WrapperReturns \/ WrapperRaises

SpecRetry == WrapInit /\ [][WrapNext]_vars

\* ------------------------------------------------- two runs at the same time

\* Two processes run main() on the same config at the same time.
RaceProcs == {1, 2}

\* Both runners are built from one valid config, with overwrite set or left
\* at its default; nothing orders their steps.
RaceInit ==
    /\ \E s \in {[type |-> "s3", s3_bucket |-> <<"sb">>, s3_key |-> SrcKey],
                 [type |-> "local", local_path |-> SrcKey]},
          d \in {[type |-> "s3", s3_bucket |-> <<"db">>, s3_key_prefix |-> <<"out">>],
                 [type |-> "local", local_path |-> <<"out">>]},
          o \in {[overwrite |-> TRUE], [overwrite |-> FALSE]} :
           config = PipelineConfig(s, d, o)
    /\ runner = BatchIngestionRunner(config)
    /\ pd \in BOOLEAN
    /\ parquet_available \in BOOLEAN
    /\ src_exists = (runner.source_adapter = "LocalStorageAdapter")
    /\ dest_obj \in {Absent, "old"}
    /\ dest_dir = (runner.dest_adapter = "LocalStorageAdapter")
    /\ dest_files = InitialFiles(config, runner.dest_adapter, dest_obj)
    /\ frame = [p \in Procs |-> NewFrame]
    /\ wrapper = RetryIdle
    /\ shell = ShellIdle
    /\ task = TaskIdle

RaceNext ==
    \/ \E p \in RaceProcs : Resolve(p)
    \/ \E p \in RaceProcs : Derive(p)
    \/ \E p \in RaceProcs : ExistsCheck(p)
    \/ \E p \in RaceProcs : Stage(p)
    \/ \E p \in RaceProcs : LocalDownload(p)
    \/ \E p \in RaceProcs : S3Download(p)
    \/ \E p \in RaceProcs : TransformRead(p)
    \/ \E p \in RaceProcs : TransformWrite(p)
    \/ \E p \in RaceProcs : TransformFallback(p)
    \/ \E p \in RaceProcs : LocalUpload(p)
    \/ \E p \in RaceProcs : LocalUploadWrite(p)
    \/ \E p \in RaceProcs : S3Upload(p)
    \/ \E p \in RaceProcs : Cleanup(p)
    \/ \E p \in RaceProcs : Return(p)

SpecRace == RaceInit /\ [][RaceNext]_vars

\* ------------------------------------------------ tools/runner.py: run_cmd

\* A command string is a sequence of characters: the blank, the two quote
\* characters, and runs of ordinary characters ("terraform", "-input=false").
SPACE == " "
QUOTE == "'"
DQUOTE == "\""
Special == {SPACE, QUOTE, DQUOTE}

\* Python's None as an argument value.
NoneValue == <<"None">>

\* shlex.split, from character i on: blanks separate words, a quote character
\* opens a span closed by the same character; a span still open at the end is
\* ValueError("No closing quotation").
RECURSIVE ShlexScan(_, _, _)
ShlexScan(s, i, st) ==
    IF i > Len(s)
    THEN IF st.quote # "" THEN [ok |-> FALSE, words |-> <<>>]
         ELSE [ok |-> TRUE,
               words |-> IF st.started THEN Append(st.words, st.word) ELSE st.words]
    ELSE LET c == s[i]
         IN  IF st.quote # ""
             THEN IF c = st.quote
                  THEN ShlexScan(s, i + 1, [st EXCEPT !.quote = ""])
                  ELSE ShlexScan(s, i + 1, [st EXCEPT !.word = Append(@, c)])
             ELSE IF c \in {QUOTE, DQUOTE}
                  THEN ShlexScan(s, i + 1, [st EXCEPT !.quote = c, !.started = TRUE])
             ELSE IF c = SPACE
                  THEN ShlexScan(s, i + 1,
                         IF st.started
                         THEN [st EXCEPT !.words = Append(@, st.word),
                                         !.word = <<>>, !.started = FALSE]
                         ELSE st)
             ELSE ShlexScan(s, i + 1, [st EXCEPT !.word = Append(@, c),
                                                 !.started = TRUE])

ShlexSplit(s) ==
    ShlexScan(s, 1, [quote |-> "", started |-> FALSE, word |-> <<>>, words |-> <<>>])

\* s.replace("'", "'\"'\"'")
RECURSIVE EscapeQuotes(_)
EscapeQuotes(s) ==
    IF s = <<>> THEN <<>>
    ELSE (IF Head(s) = QUOTE THEN <<QUOTE, DQUOTE, QUOTE, DQUOTE, QUOTE>>
          ELSE <<Head(s)>>) \o EscapeQuotes(Tail(s))

\* shlex.quote
ShlexQuote(w) ==
    IF w = <<>> THEN <<QUOTE, QUOTE>>
    ELSE IF \A i \in 1..Len(w) : w[i] \notin Special THEN w
    ELSE <<QUOTE>> \o EscapeQuotes(w) \o <<QUOTE>>

\* " ".join(shlex.quote(c) for c in cmd_list)
RECURSIVE JoinQuoted(_)
JoinQuoted(words) ==
    IF words = <<>> THEN <<>>
    ELSE IF Len(words) = 1 THEN ShlexQuote(words[1])
    ELSE ShlexQuote(words[1]) \o <<SPACE>> \o JoinQuoted(Tail(words))

\* CommandResult(returncode, stdout, stderr, cmd, cwd, env)
CommandResult(returncode, stdout, stderr, cmd, cwd, environ) ==
    [returncode |-> returncode, stdout |-> stdout, stderr |-> stderr,
     cmd |-> cmd, cwd |-> cwd, env |-> environ]

\* What the child process can do: exit with a code, outlive the timeout, or
\* never start (OSError from subprocess.run).
ExitCodes == {0, 1, 2}
Exits == {[kind |-> "exit", rc |-> rc, out |-> <<"out">>,
           err |-> IF rc = 0 THEN <<>> ELSE <<"err">>] : rc \in ExitCodes}
Failures == {[kind |-> k, rc |-> 0, out |-> <<>>, err |-> <<>>] :
                k \in {"timeout", "oserror"}}
Outcomes(timeout) ==
    {o \in Exits \cup Failures : o.kind = "timeout" => timeout # NoneValue}

\* Faulty variant of the dry-run test: the flag is ignored.
DryRunReturns_never(dry_run) == FALSE

\* `if dry_run:` (line 60)
DryRunReturns(dry_run) == dry_run

\* One call of run_cmd with the given outcome of the child process, had it
\* run: what is raised to the caller, whether subprocess.run was called, and
\* the CommandResult returned.
run_cmd(cmd, cwd, environ, dry_run, timeout, check, o) ==
    LET split == IF cmd.kind = "str" THEN ShlexSplit(cmd.val)
                 ELSE [ok |-> TRUE, words |-> cmd.val]
        cmd_str == IF cmd.kind = "str" THEN cmd.val ELSE JoinQuoted(cmd.val)
        call == [cmd |-> cmd, cmd_str |-> cmd_str, cwd |-> cwd, env |-> environ,
                 dry_run |-> dry_run, timeout |-> timeout, check |-> check,
                 exit |-> o, raised |-> "", spawned |-> FALSE,
                 result |-> CommandResult(0, <<>>, <<>>, <<>>, NoneValue, NoneValue)]
        R(rc, out, err) == CommandResult(rc, out, err, cmd_str, cwd, environ)
    IN  IF ~split.ok
        THEN [call EXCEPT !.raised = "ValueError"]
        ELSE IF DryRunReturns(dry_run)
        THEN [call EXCEPT !.result = R(0, <<"[dry_run] ">> \o cmd_str, <<>>)]
        ELSE IF o.kind = "exit"
        THEN [call EXCEPT !.spawned = TRUE,
                          !.result = IF check /\ o.rc # 0
                                     THEN R(IF o.rc # 0 THEN o.rc ELSE 1, o.out, o.err)
                                     ELSE R(o.rc, o.out, o.err)]
        ELSE IF o.kind = "timeout"
        THEN [call EXCEPT !.spawned = TRUE,
                          !.result = R(124, o.out,
                                       IF o.err # <<>> THEN o.err
                                       ELSE <<"timeout after ">> \o timeout \o <<"s">>)]
        ELSE [call EXCEPT !.spawned = TRUE,
                          !.result = R(1, <<>>, <<"OSError">>)]

\* Commands a caller passes: shell strings and argument lists.
CmdStrings ==
    { <<"ls">>,
      <<"ls", SPACE, "-l">>,
      <<"echo", SPACE, QUOTE, "a", SPACE, "b", QUOTE>>,
      <<"echo", SPACE, QUOTE, "a">>,
      <<"echo", SPACE, DQUOTE, "a", SPACE, "b">> }
CmdLists ==
    { << <<"ls">> >>,
      << <<"echo">>, <<"a", SPACE, "b">> >>,
      << <<"echo">>, <<"it", QUOTE, "s">> >>,
      << <<"echo">>, <<>> >> }
Commands ==
    {[kind |-> "str", val |-> v] : v \in CmdStrings}
        \cup {[kind |-> "list", val |-> v] : v \in CmdLists}

\* How a caller passes dry_run: left out, or given.
DryRunArgs == {"omitted", "true", "false"}

\* The default of the dry_run parameter: False for run_cmd (line 36), True
\* for the MCP tools (mcp_server.py lines 166, 200, 219, 236, 247).
DefaultDryRun(op) == op # "run_cmd"

\* The value the callee sees.
DryRunOf(op, arg) == IF arg = "omitted" THEN DefaultDryRun(op) ELSE arg = "true"

\* An argument list of literal words.
Words(ws) == [kind |-> "list", val |-> [i \in 1..Len(ws) |-> <<ws[i]>>]]

\* A run_cmd call as the tools make it: cwd and dry_run given, the rest default.
ToolCall(ws, cwd, dry_run, o) ==
    run_cmd(Words(ws), cwd, NoneValue, dry_run, NoneValue, FALSE, o)

\* The batch runner does not run while a tool is exercised.
BatchIdle ==
    /\ config = PipelineConfig([type |-> "local"], [type |-> "local"],
                               [overwrite |-> FALSE])
    /\ runner = BatchIngestionRunner(config)
    /\ pd = FALSE
    /\ parquet_available = FALSE
    /\ src_exists = FALSE
    /\ dest_obj = Absent
    /\ dest_dir = FALSE
    /\ dest_files = {}
    /\ frame = [p \in Procs |-> NewFrame]
    /\ wrapper = RetryIdle

batch == <<config, runner, pd, parquet_available, src_exists, dest_obj,
           dest_dir, dest_files, frame, wrapper>>

ToolsInit == BatchIdle /\ shell = ShellIdle /\ task = TaskIdle

\* run_cmd called directly.
RunCmd ==
    /\ shell.op = ""
    /\ \E cmd \in Commands, cwd \in {NoneValue, <<"dir">>},
          environ \in {NoneValue, <<"env">>}, arg \in DryRunArgs,
          timeout \in {NoneValue, <<"5">>}, check \in BOOLEAN :
         \E o \in Outcomes(timeout) :
           shell' = [op |-> "run_cmd", dry_run |-> arg,
                     log |-> <<run_cmd(cmd, cwd, environ,
                                       DryRunOf("run_cmd", arg), timeout, check, o)>>]
    /\ UNCHANGED <<batch, task>>

\* apply_terraform: init and plan, and apply when auto_approve is set.
ApplyTerraform ==
    /\ shell.op = ""
    /\ \E arg \in DryRunArgs, auto_approve \in BOOLEAN, with_vars \in BOOLEAN :
       \E o1, o2, o3 \in Outcomes(NoneValue) :
         LET dry == DryRunOf("apply_terraform", arg)
             tf_dir == <<"infra/aws/envs/dev">>
             var_args == IF with_vars THEN <<"-var", "k=v">> ELSE <<>>
             init == ToolCall(<<"terraform", "init", "-input=false">>, tf_dir, dry, o1)
             plan == ToolCall(<<"terraform", "plan", "-input=false", "-no-color">>
                                  \o var_args, tf_dir, dry, o2)
             apply == ToolCall(<<"terraform", "apply", "-auto-approve",
                                 "-input=false">> \o var_args, tf_dir, dry, o3)
         IN  shell' = [op |-> "apply_terraform", dry_run |-> arg,
                       log |-> IF auto_approve THEN <<init, plan, apply>>
                               ELSE <<init, plan>>]
    /\ UNCHANGED <<batch, task>>

\* destroy_terraform: plan -destroy, and destroy when auto_approve is set.
DestroyTerraform ==
    /\ shell.op = ""
    /\ \E arg \in DryRunArgs, auto_approve \in BOOLEAN :
       \E o1, o2 \in Outcomes(NoneValue) :
         LET dry == DryRunOf("destroy_terraform", arg)
             tf_dir == <<"infra/aws/envs/dev">>
             plan == ToolCall(<<"terraform", "plan", "-destroy", "-input=false",
                                "-no-color">>, tf_dir, dry, o1)
             destroy == ToolCall(<<"terraform", "destroy", "-auto-approve",
                                   "-input=false">>, tf_dir, dry, o2)
         IN  shell' = [op |-> "destroy_terraform", dry_run |-> arg,
                       log |-> IF auto_approve THEN <<plan, destroy>> ELSE <<plan>>]
    /\ UNCHANGED <<batch, task>>

\* helm_deploy: one helm upgrade --install.
HelmDeploy ==
    /\ shell.op = ""
    /\ \E arg \in DryRunArgs, with_ctx \in BOOLEAN, with_values \in BOOLEAN :
       \E o \in Outcomes(NoneValue) :
         LET dry == DryRunOf("helm_deploy", arg)
             cmd == <<"helm", "upgrade", "--install", "rel", "chart",
                      "--namespace", "ns", "--create-namespace">>
                      \o (IF with_ctx THEN <<"--kube-context", "ctx">> ELSE <<>>)
                      \o (IF with_values THEN <<"--set", "k=v">> ELSE <<>>)
         IN  shell' = [op |-> "helm_deploy", dry_run |-> arg,
                       log |-> <<ToolCall(cmd, NoneValue, dry, o)>>]
    /\ UNCHANGED <<batch, task>>

\* argo_sync: one argocd app sync.
ArgoSync ==
    /\ shell.op = ""
    /\ \E arg \in DryRunArgs, with_ctx \in BOOLEAN :
       \E o \in Outcomes(NoneValue) :
         LET dry == DryRunOf("argo_sync", arg)
             cmd == <<"argocd", "app", "sync", "app">>
                      \o (IF with_ctx THEN <<"--grpc-web", "--server", "ctx">>
                          ELSE <<>>)
         IN  shell' = [op |-> "argo_sync", dry_run |-> arg,
                       log |-> <<ToolCall(cmd, NoneValue, dry, o)>>]
    /\ UNCHANGED <<batch, task>>

\* gcp_create_project: gcloud projects create, then the billing link.
GcpCreateProject ==
    /\ shell.op = ""
    /\ \E arg \in DryRunArgs, with_org \in BOOLEAN :
       \E o1, o2 \in Outcomes(NoneValue) :
         LET dry == DryRunOf("gcp_create_project", arg)
             cmd == <<"gcloud", "projects", "create", "proj", "--name", "proj">>
                      \o (IF with_org THEN <<"--organization", "org">> ELSE <<>>)
             billing_cmd == <<"gcloud", "beta", "billing", "projects", "link",
                              "proj", "--billing-account", "acct">>
         IN  shell' = [op |-> "gcp_create_project", dry_run |-> arg,
                       log |-> <<ToolCall(cmd, NoneValue, dry, o1),
                                 ToolCall(billing_cmd, NoneValue, dry, o2)>>]
    /\ UNCHANGED <<batch, task>>

ToolsNext ==
    \/ RunCmd
    \/ ApplyTerraform
    \/ DestroyTerraform
    \/ HelmDeploy
    \/ ArgoSync
    \/ GcpCreateProject

SpecTools == ToolsInit /\ [][ToolsNext]_vars

\* --------------------------------------------- coding_agent/agent.py: Task

\* Text is a sequence of tokens; these two are white space.
NL == "\n"
Whitespace == {SPACE, NL}

\* str.strip
RECURSIVE Strip(_)
Strip(t) ==
    IF t = <<>> THEN t
    ELSE IF Head(t) \in Whitespace THEN Strip(Tail(t))
    ELSE IF t[Len(t)] \in Whitespace THEN Strip(SubSeq(t, 1, Len(t) - 1))
    ELSE t

\* What the model answers to a loop request (output_text, stripped): the tag
\* it starts with, and for write_file the text between <content> and
\* </content> when there is such an element.
LLMOutputs ==
    { [tool |-> "attempt_completion", tagged |-> FALSE, content |-> <<"done">>],
      [tool |-> "write_file", tagged |-> TRUE, content |-> <<"A">>],
      [tool |-> "write_file", tagged |-> TRUE, content |-> <<NL, "B", NL>>],
      [tool |-> "write_file", tagged |-> FALSE, content |-> <<>>],
      [tool |-> "read_file", tagged |-> FALSE, content |-> <<>>],
      [tool |-> "text", tagged |-> FALSE, content |-> <<"hm">>] }

\* Faulty variant of _extract_tag: the inner text as it stands.
extract_tag_raw(output) == output.content

\* Task._extract_tag(output, "content"): the stripped inner text, "" without
\* a match.
extract_tag(output) == IF output.tagged THEN Strip(output.content) ELSE <<>>

\* The three status messages of Task.start.
StatusCompleted(n) == <<"Task completed successfully in ", n, " loop(s).">>
StatusNoCompletion(n) ==
    <<"Agentic loop exited after ", n, " loop(s) without explicit completion.">>
StatusMaxLoops(n) ==
    <<"Agentic loop exited after reaching max_loops=", n,
      " without explicit completion.">>

\* os.environ values of ENABLE_SELF_LEARNING and AGENT_SELF_LEARNING_URL.
Unset == "unset"
EnableValues == {Unset, "true", "TRUE", "false"}
UrlValues == {Unset, "http://dummy/self-learning"}

\* os.environ.get("ENABLE_SELF_LEARNING", "false").lower() == "true"
enable_self_learning(v) == v \in {"true", "TRUE"}

\* Faulty variant of the loop test: one iteration too many.
LoopContinues_late(finished, loop_count, max_loops) ==
    ~finished /\ loop_count <= max_loops

\* `while not self.finished and self.loop_count < self.max_loops`
LoopContinues(finished, loop_count, max_loops) ==
    ~finished /\ loop_count < max_loops

\* Task.__init__: a Task on an existing file; file_path has a directory part
\* or is a bare file name.
NewTask(max_loops, has_dir) ==
    [pc |-> "new", has_dir |-> has_dir, max_loops |-> max_loops,
     loop_count |-> 0, finished |-> FALSE, completion |-> <<>>,
     status_message |-> <<>>, plan |-> <<>>, file |-> <<"orig", NL>>,
     planned |-> 0, requests |-> 0, outputs |-> <<>>, modified_files |-> 0,
     logs |-> <<>>, posts |-> <<>>, environ |-> [enable |-> Unset, url |-> Unset],
     error |-> ""]

\* Lines 340-374: the planning request, then the loop state is reset.
TaskPlan ==
    /\ task.pc = "new"
    /\ task' = [task EXCEPT !.pc = "loop", !.plan = <<"1. plan">>,
                            !.planned = @ + 1]
    /\ UNCHANGED <<batch, shell>>

\* One loop request (lines 377-389) of an iteration that goes on.
Requested(t) == [t EXCEPT !.loop_count = @ + 1, !.requests = @ + 1]

\* Lines 390-393: the answer starts with <attempt_completion>.
LoopCompletion ==
    /\ task.pc = "loop"
    /\ LoopContinues(task.finished, task.loop_count, task.max_loops)
    /\ \E o \in {x \in LLMOutputs : x.tool = "attempt_completion"} :
         LET t == Requested(task)
         IN  task' = [t EXCEPT !.outputs = Append(@, o),
                               !.completion = o.content,
                               !.finished = TRUE,
                               !.status_message = StatusCompleted(t.loop_count)]
    /\ UNCHANGED <<batch, shell>>

\* Lines 394-404: write_file. utils.write_file makes the directory of the path
\* first: os.makedirs("") raises FileNotFoundError for a bare file name, and
\* the exception leaves start().
LoopWriteFile ==
    /\ task.pc = "loop"
    /\ LoopContinues(task.finished, task.loop_count, task.max_loops)
    /\ \E o \in {x \in LLMOutputs : x.tool = "write_file"} :
         LET t == [Requested(task) EXCEPT !.outputs = Append(@, o)]
         IN  task' = IF task.has_dir
                     THEN [t EXCEPT !.file = extract_tag(o),
                                    !.modified_files = @ + 1]
                     ELSE [t EXCEPT !.pc = "raised",
                                    !.error = "FileNotFoundError"]
    /\ UNCHANGED <<batch, shell>>

\* Lines 405-410: read_file.
LoopReadFile ==
    /\ task.pc = "loop"
    /\ LoopContinues(task.finished, task.loop_count, task.max_loops)
    /\ \E o \in {x \in LLMOutputs : x.tool = "read_file"} :
         task' = [Requested(task) EXCEPT !.outputs = Append(@, o)]
    /\ UNCHANGED <<batch, shell>>

\* Lines 411-417: anything else ends the loop without completion.
LoopOther ==
    /\ task.pc = "loop"
    /\ LoopContinues(task.finished, task.loop_count, task.max_loops)
    /\ \E o \in {x \in LLMOutputs : x.tool = "text"} :
         LET t == Requested(task)
         IN  task' = [t EXCEPT !.outputs = Append(@, o),
                               !.finished = TRUE,
                               !.status_message = StatusNoCompletion(t.loop_count)]
    /\ UNCHANGED <<batch, shell>>

\* Task._reflect_and_log: the reflection log is written to log/; with
\* self-learning enabled and a URL set it is POSTed (a failed request is
\* caught), and the files of the self-edit pass that cannot be opened are
\* POSTed as self_edit_diffs.
reflect_and_log(t, enable, url, readable) ==
    LET reflection_log == [loop_count |-> t.loop_count, max_loops |-> t.max_loops,
                           status_message |-> t.status_message, plan |-> t.plan]
        send == enable_self_learning(enable) /\ url # Unset
        first == IF send
                 THEN <<[url |-> url, body |-> "reflection_log",
                         status_message |-> t.status_message]>>
                 ELSE <<>>
        second == IF send /\ ~readable
                  THEN <<[url |-> url, body |-> "self_edit_diffs",
                          status_message |-> <<>>]>>
                  ELSE <<>>
    IN  [t EXCEPT !.logs = Append(@, reflection_log),
                  !.posts = @ \o first \o second,
                  !.environ = [enable |-> enable, url |-> url]]

\* Lines 419-424: after the loop; on exhaustion the status is set, the
\* reflection is logged and the task is finished.
LoopExit ==
    /\ task.pc = "loop"
    /\ ~LoopContinues(task.finished, task.loop_count, task.max_loops)
    /\ IF ~task.finished /\ task.loop_count >= task.max_loops
       THEN \E enable \in EnableValues, url \in UrlValues, readable \in BOOLEAN :
              LET t == [task EXCEPT !.status_message = StatusMaxLoops(task.max_loops)]
              IN  task' = [reflect_and_log(t, enable, url, readable) EXCEPT
                             !.finished = TRUE, !.pc = "exited"]
       ELSE task' = [task EXCEPT !.pc = "exited"]
    /\ UNCHANGED <<batch, shell>>

AgentInit ==
    /\ BatchIdle
    /\ shell = ShellIdle
    /\ \E n \in 0..MaxLoops, has_dir \in BOOLEAN : task = NewTask(n, has_dir)

AgentNext ==
    \/ TaskPlan
    \/ LoopCompletion
    \/ LoopWriteFile
    \/ LoopReadFile
    \/ LoopOther
    \/ LoopExit

SpecAgent == AgentInit /\ [][AgentNext]_vars

\* start() runs on one thread that is never suspended for good and every
\* request to the model is answered: a step that can be taken is taken.
SpecAgentFair == AgentInit /\ [][AgentNext]_vars /\ WF_vars(AgentNext)

\* ------------------------------------------------------------------ claims

\* How many times event e occurs in a trace.
Count(seq, e) == Cardinality({i \in 1..Len(seq) : seq[i] = e})

\* C4. Retry budget of the wrapper: an operation that raises k <= max_retries
\* times and then returns is invoked k + 1 times with k sleeps; one that
\* raises max_retries + 1 times in a row is invoked max_retries + 1 times
\* with max_retries sleeps and its exception is re-raised; the j-th sleep
\* lasts delay * backoff^(j-1); once the wrapper has returned or raised it
\* invokes nothing more.
C4_RetryBudget ==
    /\ wrapper.state = "returned" =>
          /\ wrapper.tries <= wrapper.max_retries
          /\ wrapper.calls = wrapper.tries + 1
          /\ Len(wrapper.sleeps) = wrapper.tries
    /\ wrapper.state = "raised" =>
          /\ wrapper.tries = wrapper.max_retries + 1
          /\ wrapper.calls = wrapper.max_retries + 1
          /\ Len(wrapper.sleeps) = wrapper.max_retries
    /\ wrapper.state = "running" =>
          /\ wrapper.calls = wrapper.tries
          /\ wrapper.tries <= wrapper.max_retries
          /\ Len(wrapper.sleeps) = wrapper.tries
    /\ \A j \in 1..Len(wrapper.sleeps) :
          wrapper.sleeps[j] = IF j = 1 THEN wrapper.delay
                              ELSE wrapper.sleeps[j - 1] * wrapper.backoff
    /\ wrapper.state \in {"returned", "raised"} => ~ENABLED WrapNext

\* C4 witness: with the defaults, three failures then a success: four
\* invocations and the sleeps 1, 2, 4.
C4_Witness ==
    /\ wrapper.state = "returned"
    /\ wrapper.max_retries = 3 /\ wrapper.delay = 1 /\ wrapper.backoff = 2
    /\ wrapper.calls = 4
    /\ wrapper.sleeps = <<1, 2, 4>>

\* The call has returned or raised and its caller has not taken over yet.
Finished(p) == frame[p].pc = "done"

\* The call got as far as deriving its destination path.
Derived(p) == frame[p].dest_path # <<>>

\* No adapter transfer, no transform and no temp file in this call.
Untouched(p) ==
    /\ Count(frame[p].trace, "mkstemp") = 0
    /\ Count(frame[p].trace, "download") = 0
    /\ Count(frame[p].trace, "transform") = 0
    /\ Count(frame[p].trace, "upload") = 0
    /\ frame[p].tmpfiles = {}
    /\ frame[p].tmp_src = "" /\ frame[p].tmp_out = ""

\* C1. Cleanup guarantee: when run_once has returned or raised, no temp
\* file created during the call is left on disk.
C1_CleanupGuarantee ==
    \A p \in Procs : Finished(p) => frame[p].tmpfiles = {}

\* C2 as stated. Skip short-circuit: whenever the derived destination exists
\* and overwrite is false, run_once returns {status: skipped, dest: the
\* derived destination path} and downloads, transforms and uploads nothing
\* and creates no temp file.
C2_SkipAlways ==
    \A p \in Procs :
        (Finished(p) /\ Derived(p) /\ ~runner.overwrite
                     /\ frame[p].dest_before # Absent) =>
            /\ Untouched(p)
            /\ frame[p].error = ""
            /\ frame[p].result =
                  [status |-> "skipped",
                   dest |-> derive_destination_key(config.destination,
                                                   frame[p].source_path)]

\* C2 as amended. A call that finds its derived destination present with
\* overwrite false downloads, transforms and uploads nothing, creates no temp
\* file and leaves the destination as it was; it returns {status: skipped,
\* dest: the derived destination path} unless the existence probe itself
\* raised, in which case run_once raises that error.
C2_SkipShortCircuit ==
    \A p \in Procs :
        (Finished(p) /\ Derived(p) /\ ~runner.overwrite
                     /\ frame[p].dest_before # Absent) =>
            /\ Untouched(p)
            /\ dest_obj = frame[p].dest_before
            /\ IF frame[p].probe = "error"
               THEN frame[p].error = "ClientError" /\ frame[p].result.status = ""
               ELSE /\ frame[p].error = ""
                    /\ frame[p].result =
                          [status |-> "skipped",
                           dest |-> derive_destination_key(config.destination,
                                                           frame[p].source_path)]

\* C2 witness: a call ended skipped on an existing destination.
C2_Witness ==
    \E p \in Procs :
        /\ Finished(p) /\ ~runner.overwrite
        /\ frame[p].dest_before = "old"
        /\ frame[p].result.status = "skipped"
        /\ Count(frame[p].trace, "exists") = 1

\* C3 as stated. Idempotent re-run: of two calls in sequence with overwrite
\* false, whenever the destination exists before the second, the second
\* returns skipped with the first call's dest and the destination's bytes are
\* what they were after the first call.
C3_RerunAlwaysSkipped ==
    \A p \in Procs :
        (p + 1 \in Procs /\ ~runner.overwrite
            /\ Finished(p + 1) /\ Derived(p + 1)
            /\ frame[p + 1].dest_before # Absent) =>
              /\ dest_obj = frame[p + 1].dest_before
              /\ frame[p + 1].result.status = "skipped"
              /\ frame[p].result.status # "" =>
                    frame[p + 1].result.dest = frame[p].result.dest

\* C3 as amended. Of two calls in sequence with overwrite false, when the
\* destination exists before the second (as it does after a first call that
\* returned success), the second leaves its bytes as they were after the
\* first; it returns skipped with the first call's dest unless its existence
\* probe raised, in which case it raises that error.
C3_IdempotentRerun ==
    \A p \in Procs : (p + 1 \in Procs /\ ~runner.overwrite) =>
        /\ (frame[p].pc = "returned" /\ frame[p].result.status = "success"
               /\ frame[p + 1].pc \notin {"start", "returned"}) =>
              frame[p + 1].dest_before # Absent
        /\ (Finished(p + 1) /\ Derived(p + 1)
               /\ frame[p + 1].dest_before # Absent) =>
              /\ dest_obj = frame[p + 1].dest_before
              /\ Untouched(p + 1)
              /\ IF frame[p + 1].probe = "error"
                 THEN /\ frame[p + 1].error = "ClientError"
                      /\ frame[p + 1].result.status = ""
                 ELSE /\ frame[p + 1].error = ""
                      /\ frame[p + 1].result.status = "skipped"
                      /\ frame[p].result.status # "" =>
                            frame[p + 1].result.dest = frame[p].result.dest

\* C3 witness: the first call returned success, the second ended skipped.
C3_Witness ==
    /\ ~runner.overwrite
    /\ frame[1].pc = "returned" /\ frame[1].result.status = "success"
    /\ Finished(2) /\ frame[2].result.status = "skipped"
    /\ frame[2].result.dest = frame[1].result.dest
    /\ dest_obj = frame[2].dest_before

\* s ends with the tokens of t.
HasSuffix(s, t) ==
    Len(s) >= Len(t) /\ SubSeq(s, Len(s) - Len(t) + 1, Len(s)) = t

\* C5. The retry budget of the object-storage download and upload inside
\* run_once is the job's options.max_retries: a transfer that fails on every
\* attempt is attempted exactly max_retries + 1 times before run_once raises.
C5_RetryBudgetFromOptions ==
    \A p \in Procs :
        /\ frame[p].dl.state = "raised" =>
              frame[p].dl.calls = runner.max_retries + 1
        /\ frame[p].ul.state = "raised" =>
              frame[p].ul.calls = runner.max_retries + 1

\* The file extension that names a transform tier.
TierExtension(tier) ==
    CASE tier = "parquet" -> <<DOT, "parquet">>
      [] tier = "csv.gz" -> <<DOT, "csv", DOT, "gz">>
      [] OTHER -> <<DOT, "gz">>

\* C6. On success the returned dest carries the extension of the tier that
\* produced the content: .parquet from the columnar backend, .csv.gz when
\* there is no columnar backend.
C6_DestExtensionByTier ==
    \A p \in Procs :
        (Finished(p) /\ frame[p].result.status = "success"
                     /\ Content(frame[p]) \in {"parquet", "csv.gz"}) =>
            HasSuffix(frame[p].result.dest, TierExtension(Content(frame[p])))

\* The destination path as the claim C7 words it: the prefix, one separator,
\* the source's base name with its extension replaced by .parquet.
ExpectedDest(destination, source_path) ==
    LET pre == IF Truthy(destination, "s3_key_prefix")
               THEN destination["s3_key_prefix"]
               ELSE GetOrEmpty(destination, "local_path")
        bare == IF EndsWith(pre, SEP) THEN SubSeq(pre, 1, Len(pre) - 1) ELSE pre
        name == splitext(basename(source_path))[1] \o <<DOT, "parquet">>
    IN  IF TypeOf(destination) = "s3"
        THEN <<"s3://">> \o destination["s3_bucket"] \o <<SEP>>
                 \o (IF pre = <<>> THEN <<>> ELSE bare \o <<SEP>>) \o name
        ELSE (IF pre = <<>> THEN <<DOT>> ELSE bare) \o <<SEP>> \o name

\* C7. Determinism of destination derivation: every call of every run with
\* the same config derives the same destination path, whatever storage holds,
\* the overwrite flag or the tier; the path is the prefix, exactly one
\* separator and <source base name>.parquet (s3://<bucket>/... for object
\* storage); skipped and success results carry that same dest.
C7_DestinationDeterministic ==
    /\ \A p \in Procs :
          /\ Derived(p) =>
                /\ HasSuffix(frame[p].dest_path, <<DOT, "parquet">>)
                /\ ("s3_bucket" \in DOMAIN config.destination
                        \/ TypeOf(config.destination) # "s3") =>
                      frame[p].dest_path =
                          ExpectedDest(config.destination, frame[p].source_path)
          /\ frame[p].result.status \in {"skipped", "success"} =>
                /\ HasSuffix(frame[p].result.dest, <<DOT, "parquet">>)
                /\ Derived(p) => frame[p].result.dest = frame[p].dest_path
    /\ \A p, q \in Procs :
          /\ (Derived(p) /\ Derived(q)) => frame[p].dest_path = frame[q].dest_path
          /\ (frame[p].result.status # "" /\ frame[q].result.status # "") =>
                frame[p].result.dest = frame[q].result.dest

\* C7 witness: an object-storage destination whose prefix has no trailing
\* separator; one call returned success and the next one skipped.
C7_Witness ==
    /\ config.destination = [type |-> "s3", s3_bucket |-> <<"db">>,
                             s3_key_prefix |-> <<"out">>]
    /\ frame[1].result.status = "success"
    /\ Finished(2) /\ frame[2].result.status = "skipped"
    /\ frame[2].dest_path = <<"s3://", "db", SEP, "out", SEP, "in", DOT, "parquet">>

\* The place of a step in run_once.
Rank(e) ==
    CASE e = "resolve" -> 1
      [] e = "derive" -> 2
      [] e = "exists" -> 3
      [] e = "mkstemp" -> 4
      [] e = "download" -> 5
      [] e = "transform" -> 6
      [] e = "upload" -> 7
      [] OTHER -> 8

\* C8. Ordering within one call: resolve, derive, existence check, staging,
\* download attempts, transform, upload attempts, cleanup, in that order with
\* none skipped; a step starts only when the one before it has finished.
C8_StepOrder ==
    \A p \in Procs :
        LET t == frame[p].trace
        IN  /\ Len(t) > 0 => t[1] = "resolve"
            /\ \A i \in 2..Len(t) :
                  /\ Rank(t[i - 1]) <= Rank(t[i])
                  /\ Rank(t[i]) <= Rank(t[i - 1]) + 1
                  /\ Rank(t[i]) = Rank(t[i - 1]) => t[i] \in {"download", "upload"}
            /\ Count(t, "transform") > 0 =>
                  IF runner.source_adapter = "S3StorageAdapter"
                  THEN frame[p].dl.state = "returned"
                  ELSE src_exists
            /\ Count(t, "upload") > 0 =>
                  frame[p].tmp_out # "" /\ frame[p].tiers # <<>>
            /\ Count(t, "cleanup") > 0 =>
                  /\ t[Len(t)] = "cleanup"
                  /\ Finished(p)
                  /\ runner.dest_adapter = "S3StorageAdapter" =>
                        frame[p].ul.state \in {"returned", "raised"}

\* C8 witness: a whole run with a retried download and a retried upload.
C8_Witness ==
    \E p \in Procs :
        frame[p].trace = <<"resolve", "derive", "exists", "mkstemp", "download",
                           "download", "transform", "upload", "upload", "cleanup">>

\* The source spec lacks a field its type requires.
SourceLacksField(src) ==
    IF "type" \in DOMAIN src /\ src["type"] = "s3"
    THEN \/ "s3_bucket" \notin DOMAIN src \/ src["s3_bucket"] = <<>>
         \/ "s3_key" \notin DOMAIN src \/ src["s3_key"] = <<>>
    ELSE "local_path" \notin DOMAIN src \/ src["local_path"] = <<>>

\* C9. A source lacking s3_bucket or s3_key (object storage) or local_path
\* (local) makes run_once fail with a configuration error before any adapter
\* operation: no exists, download or upload, no temp file, nothing retried.
C9_SourceConfigError ==
    SourceLacksField(config.source) =>
        \A p \in Procs :
            /\ Untouched(p)
            /\ Count(frame[p].trace, "derive") = 0
            /\ Count(frame[p].trace, "exists") = 0
            /\ frame[p].dl.calls = 0 /\ frame[p].ul.calls = 0
            /\ frame[p].dl.sleeps = <<>> /\ frame[p].ul.sleeps = <<>>
            /\ frame[p].result.status = ""
            /\ dest_obj = frame[p].dest_before \/ frame[p].pc \in {"start", "returned"}
            /\ frame[p].pc \in {"done", "returned"} => frame[p].error = "ValueError"

\* C9 witness: an object-storage source with a bucket and no key has raised.
C9_Witness ==
    \E p \in Procs :
        /\ config.source = [type |-> "s3", s3_bucket |-> <<"sb">>]
        /\ Finished(p)
        /\ frame[p].error = "ValueError"
        /\ frame[p].trace = <<"resolve">>

\* The destination spec lacks the location field its type requires.
DestLacksField(destination) ==
    IF "type" \in DOMAIN destination /\ destination["type"] = "s3"
    THEN "s3_bucket" \notin DOMAIN destination
    ELSE "local_path" \notin DOMAIN destination

\* C10. A destination spec without its location field (s3_bucket for object
\* storage, local_path for local) makes run_once fail with a configuration
\* error before any download or upload.
C10_DestConfigError ==
    DestLacksField(config.destination) =>
        \A p \in Procs :
            /\ Count(frame[p].trace, "download") = 0
            /\ Count(frame[p].trace, "upload") = 0
            /\ frame[p].result.status = ""
            /\ Finished(p) => frame[p].error = "ValueError"

\* C11. Upload is all-or-nothing for both adapters: after a call whose upload
\* step failed the destination holds what it held before the call (absent
\* stays absent, an existing object is neither truncated nor partly
\* overwritten); after one whose upload succeeded it holds the complete
\* transform output.
C11_UploadAllOrNothing ==
    \A p \in Procs :
        (Finished(p) /\ Count(frame[p].trace, "upload") > 0) =>
            IF frame[p].error # ""
            THEN dest_obj = frame[p].dest_before
            ELSE dest_obj = Content(frame[p])

\* C12. Result contract of run_once: a call either returns {status, dest}
\* with status success or skipped, or raises, never both and never a result
\* for a failed run; success is returned only after the upload to dest has
\* completed, so the destination exists then; skipped is returned only when
\* the destination existed at the existence check.
C12_ResultContract ==
    \A p \in Procs :
        /\ frame[p].pc \in {"done", "returned"} =>
              /\ (frame[p].error = "") # (frame[p].result.status = "")
              /\ frame[p].result.status \in {"", "success", "skipped"}
        /\ frame[p].pc \notin {"done", "returned"} =>
              frame[p].result.status = ""
        /\ (Finished(p) /\ frame[p].result.status = "success") =>
              /\ Count(frame[p].trace, "upload") > 0
              /\ frame[p].result.dest = frame[p].dest_path
              /\ dest_obj # Absent
              /\ dest_obj = Content(frame[p])
              /\ runner.dest_adapter = "S3StorageAdapter" =>
                    frame[p].ul.state = "returned"
        /\ (Finished(p) /\ frame[p].result.status = "skipped") =>
              /\ frame[p].probe = "true"
              /\ frame[p].dest_before # Absent
              /\ frame[p].result.dest = frame[p].dest_path
              /\ Count(frame[p].trace, "exists") = 1
              /\ Untouched(p)

\* C12 witness: a first call raised without a result and the next one
\* returned success with the destination written.
C12_Witness ==
    /\ frame[1].pc = "returned"
    /\ frame[1].error # "" /\ frame[1].result.status = ""
    /\ Finished(2) /\ frame[2].result.status = "success"
    /\ dest_obj = Content(frame[2])

\* C13. Two calls that interleave on the same destination path with
\* overwrite set can both return success, and once both have finished the
\* destination holds exactly the complete transform output of the call whose
\* upload finished last: never a mix of the two outputs, never an empty or
\* absent file.
C13_LastUploadWins ==
    (\A p \in RaceProcs : Finished(p) /\ frame[p].result.status = "success") =>
        \A p \in RaceProcs :
            (\A q \in RaceProcs : frame[q].landed <= frame[p].landed) =>
                dest_obj = Content(frame[p])

\* The directory a local destination spec names, without a trailing separator.
DestDirectory(destination) ==
    LET d == destination["local_path"]
    IN  IF EndsWith(d, SEP) THEN SubSeq(d, 1, Len(d) - 1) ELSE d

\* The files directly in directory d.
DirFiles(d) == {f \in dest_files : dirname(f) = d}

\* A local source and a local destination given by its local_path.
LocalToLocal ==
    /\ runner.source_adapter = "LocalStorageAdapter"
    /\ runner.dest_adapter = "LocalStorageAdapter"
    /\ Truthy(config.destination, "local_path")
    /\ "s3_key_prefix" \notin DOMAIN config.destination

\* C14. With a local source and a local destination directory, a call that
\* returns success on an empty directory leaves exactly one file there, and
\* every further successful call with overwrite set keeps it at exactly one
\* file: the same path is rewritten with the call's output, no second output
\* and no temp file shows up in the directory.
C14_OneOutputFile ==
    LocalToLocal =>
        /\ \A p \in Procs :
              (Finished(p) /\ frame[p].result.status = "success") =>
                  /\ DirFiles(DestDirectory(config.destination))
                        = {frame[p].result.dest}
                  /\ Cardinality(dest_files) = 1
                  /\ dest_obj = Content(frame[p])
        /\ (\E p \in Procs : frame[p].result.status = "success") =>
              Cardinality(DirFiles(DestDirectory(config.destination))) = 1
        /\ (frame[1].dest_before = Absent
                /\ frame[1].pc \in {"derive", "check", "stage", "download",
                                    "transform", "serialize", "fallback", "upload"})
              => dest_files = {}

\* C14 witness: overwrite set, a first call returned success and a second one
\* has succeeded too; the directory out holds the one file out/in.parquet.
C14_Witness ==
    /\ LocalToLocal /\ runner.overwrite
    /\ frame[1].pc = "returned" /\ frame[1].result.status = "success"
    /\ Finished(2) /\ frame[2].result.status = "success"
    /\ frame[2].dest_before \notin {Absent, "old"}
    /\ DirFiles(<<"out">>) = {<<"out", SEP, "in", DOT, "parquet">>}

\* The adapter variant a spec's type names: object storage for "s3", local
\* for any other value or none.
VariantOf(spec) ==
    IF "type" \in DOMAIN spec
    THEN IF spec["type"] = "s3" THEN "S3StorageAdapter" ELSE "LocalStorageAdapter"
    ELSE "LocalStorageAdapter"

\* The path is of the form s3://...
IsS3Path(path) == Len(path) > 0 /\ path[1] = "s3://"

\* C15. Adapter resolution: source.type and destination.type each select
\* exactly one adapter variant, object storage for "s3" and local for any
\* other or missing type, and the paths run_once uses agree with the adapters
\* chosen at construction: the source path is s3://bucket/key iff the source
\* adapter is the object-storage one, the derived destination is an s3://
\* path iff the destination adapter is.
C15_AdapterResolution ==
    /\ runner.source_adapter = VariantOf(config.source)
    /\ runner.dest_adapter = VariantOf(config.destination)
    /\ \A p \in Procs :
          /\ frame[p].source_path # <<>> =>
                /\ IsS3Path(frame[p].source_path)
                      <=> (runner.source_adapter = "S3StorageAdapter")
                /\ IsS3Path(frame[p].source_path) =>
                      frame[p].source_path =
                          <<"s3://">> \o config.source["s3_bucket"] \o <<SEP>>
                              \o config.source["s3_key"]
          /\ Derived(p) =>
                IsS3Path(frame[p].dest_path)
                    <=> (runner.dest_adapter = "S3StorageAdapter")
          /\ frame[p].result.status # "" =>
                IsS3Path(frame[p].result.dest)
                    <=> (runner.dest_adapter = "S3StorageAdapter")
          /\ Count(frame[p].trace, "download") > 0 =>
                (frame[p].dl.state # "idle")
                    <=> (VariantOf(config.source) = "S3StorageAdapter")

\* C15 witness: a source of unknown type is read through the local adapter
\* from a plain path and written through the object-storage adapter to an
\* s3:// path.
C15_Witness ==
    \E p \in Procs :
        /\ config.source = [type |-> "s4",
                            local_path |-> <<"in", DOT, "tar", DOT, "csv">>]
        /\ runner.source_adapter = "LocalStorageAdapter"
        /\ runner.dest_adapter = "S3StorageAdapter"
        /\ Finished(p) /\ frame[p].result.status = "success"
        /\ frame[p].source_path = <<"in", DOT, "tar", DOT, "csv">>
        /\ IsS3Path(frame[p].dest_path)

\* The MCP tools built on run_cmd.
McpTools == {"apply_terraform", "destroy_terraform", "helm_deploy",
             "argo_sync", "gcp_create_project"}

\* The calls of the log made with dry_run set.
DryCalls == {i \in 1..Len(shell.log) : shell.log[i].dry_run}

\* The call returned the simulated result: code 0, the command string after
\* "[dry_run] " on stdout, nothing on stderr.
Simulated(c) ==
    /\ c.raised = ""
    /\ c.result.returncode = 0
    /\ c.result.stdout = <<"[dry_run] ">> \o c.result.cmd
    /\ c.result.cmd = (IF c.cmd.kind = "str" THEN c.cmd.val ELSE c.cmd_str)
    /\ c.result.stderr = <<>>

\* When the caller leaves dry_run out, or passes True, a tool's calls are all
\* made with dry_run set.
ToolsDefaultToDryRun ==
    (shell.op \in McpTools /\ shell.dry_run # "false") =>
        /\ Len(shell.log) > 0
        /\ DryCalls = 1..Len(shell.log)

C17_CheckRaises ==
    \A i \in 1..Len(shell.log) :
        LET c == shell.log[i]
        IN  (c.check /\ ~c.dry_run /\ c.spawned
                     /\ c.exit.kind = "exit" /\ c.exit.rc # 0) =>
                c.raised = "CalledProcessError"

\* The answers so far were all tool calls.
ToolCallsOnly(outputs) ==
    \A i \in 1..Len(outputs) : outputs[i].tool \in {"write_file", "read_file"}

\* start() is over: it returned or an exception left it.
TaskEnded == task.pc \in {"exited", "raised"}

\* C18. Task.start with a model that answers every loop request with a tool
\* call (write_file or read_file) and never completes makes exactly max_loops
\* loop iterations, then sets a status message starting with "Agentic loop
\* exited after reaching max_loops", writes one reflection log whose
\* loop_count is max_loops, and ends with finished = True.
C18_MaxLoopsExit ==
    (TaskEnded /\ ToolCallsOnly(task.outputs)) =>
        /\ task.pc = "exited"
        /\ task.loop_count = task.max_loops
        /\ task.requests = task.max_loops
        /\ task.status_message = StatusMaxLoops(task.max_loops)
        /\ Len(task.logs) = 1
        /\ task.logs[1].loop_count = task.max_loops
        /\ task.finished

\* The answer at iteration k is attempt_completion, the k - 1 before it were
\* tool calls, and start() has returned.
CompletedAt(k) ==
    /\ task.pc = "exited"
    /\ k >= 1 /\ Len(task.outputs) = k
    /\ task.outputs[k].tool = "attempt_completion"
    /\ ToolCallsOnly(SubSeq(task.outputs, 1, k - 1))

\* The write_file calls among the answers, by position.
Writes == {i \in 1..Len(task.outputs) : task.outputs[i].tool = "write_file"}
LastWrite == CHOOSE i \in Writes : \A j \in Writes : j <= i

\* What C19 says of the loop itself: it stops at iteration k <= max_loops,
\* no request follows, completion and status are set, nothing is logged.
StopsAt(k) ==
    /\ k <= task.max_loops
    /\ task.loop_count = k
    /\ task.requests = k
    /\ task.finished
    /\ task.completion = task.outputs[k].content
    /\ task.status_message = StatusCompleted(k)
    /\ task.logs = <<>> /\ task.posts = <<>>
    /\ ~ENABLED AgentNext

C20_ReflectionPosted ==
    (task.pc = "exited" /\ Len(task.logs) = 1 /\ task.environ.url # Unset) =>
        \E i \in 1..Len(task.posts) :
            /\ task.posts[i].url = task.environ.url
            /\ task.posts[i].body = "reflection_log"
            /\ task.posts[i].status_message = task.logs[1].status_message
            /\ \A j \in 1..Len(task.posts) :
                  task.posts[j].body = "reflection_log" => j = i

\* The place of a tier on the ladder.
TierRank(tier) ==
    CASE tier = "parquet" -> 1
      [] tier = "csv.gz" -> 2
      [] OTHER -> 3

\* _transform has returned in call p.
Transformed(p) == frame[p].pc \in {"upload", "write", "cleanup", "done"}
                     /\ frame[p].tmp_out # ""

GaveUp(w) ==
    /\ w.state = "raised"
    /\ w.calls = RetryDefaultMaxRetries + 1
    /\ Len(w.sleeps) = RetryDefaultMaxRetries

\* C23. Configuration errors and a missing local source reach the caller of
\* run_once at once and un-retried: the failing step is attempted exactly once
\* and there is no backoff sleep; only the errors of the object-storage
\* download and upload are retried, and they reach the caller only once the
\* retry budget is used up, as the exception the adapter raised.
C23_OnlyTransfersRetried ==
    \A p \in Procs :
        LET f == frame[p]
        IN  /\ (f.pc = "done" /\ f.error = "ValueError") =>
                  f.trace = <<"resolve">> /\ f.dl = RetryIdle /\ f.ul = RetryIdle
            /\ (f.pc = "done" /\ f.error = "FileNotFoundError") =>
                  /\ Count(f.trace, "download") = 1
                  /\ f.dl = RetryIdle /\ f.ul = RetryIdle
            /\ runner.source_adapter = "LocalStorageAdapter" => f.dl = RetryIdle
            /\ runner.dest_adapter = "LocalStorageAdapter" => f.ul = RetryIdle
            /\ f.pc \in {"start", "derive", "check", "stage"} =>
                  f.dl = RetryIdle /\ f.ul = RetryIdle
            /\ f.pc \in {"download", "transform", "serialize", "fallback"} =>
                  f.ul = RetryIdle
            /\ f.dl # RetryIdle => Count(f.trace, "download") = f.dl.calls
            /\ f.ul # RetryIdle => Count(f.trace, "upload") = f.ul.calls
            /\ (f.pc = "done" /\ f.error = "ClientError" /\ f.probe # "error") =>
                  \/ GaveUp(f.dl) /\ f.ul = RetryIdle
                  \/ GaveUp(f.ul) /\ f.dl.state \in {"idle", "returned"}
            /\ (f.dl # RetryIdle /\ f.dl.state = "raised") => f.error = "ClientError"
            /\ (f.ul # RetryIdle /\ f.ul.state = "raised") => f.error = "ClientError"

\* C23 witness: an object-storage download failed on all four attempts, with
\* the sleeps 1, 2, 4, and run_once raised its ClientError.
C23_Witness ==
    \E p \in Procs :
        /\ frame[p].pc = "done"
        /\ frame[p].error = "ClientError"
        /\ GaveUp(frame[p].dl)
        /\ frame[p].dl.sleeps = <<1, 2, 4>>
        /\ Count(frame[p].trace, "download") = 4

\* C24. The object-storage adapter's exists returns true when the metadata
\* probe succeeds, false exactly when the backend reports a not-found code
\* (404, NoSuchKey, NotFound) and re-raises every other backend error; it is
\* one probe, never retried, and changes nothing in storage.
C24_S3ExistsContract ==
    \A p \in Procs :
        LET f == frame[p]
        IN  (runner.dest_adapter = "S3StorageAdapter" /\ f.head # "") =>
               /\ f.probe = "true" <=> f.head = "ok"
               /\ f.probe = "false" <=> f.head \in {"404", "NoSuchKey", "NotFound"}
               /\ f.probe = "error" <=> f.head \notin {"ok", "404", "NoSuchKey", "NotFound"}
               /\ f.probe = "error" => f.pc = "done" /\ f.error = "ClientError"
               /\ f.probe # "error" => f.error = ""
               /\ Count(f.trace, "exists") = 1
               /\ f.dl = RetryIdle /\ f.ul = RetryIdle
               /\ dest_obj = f.dest_before
               /\ dest_files = {} /\ ~dest_dir

\* C24 witness: the probe answered NoSuchKey, exists returned False and the
\* run goes on.
C24_Witness ==
    \E p \in Procs :
        /\ runner.dest_adapter = "S3StorageAdapter"
        /\ frame[p].head = "NoSuchKey"
        /\ frame[p].probe = "false"
        /\ frame[p].pc = "stage"

\* C25. A temp file that cannot be removed during cleanup is never fatal and
\* the removal is never retried: the other temp file is still removed and the
\* outcome of run_once is the outcome of the upload alone, the success result
\* when the upload succeeded and the upload's exception when it failed.
C25_CleanupNeverFatal ==
    \A p \in Procs :
        LET f == frame[p]
        IN  (f.pc = "done" /\ Count(f.trace, "cleanup") > 0) =>
               /\ Count(f.trace, "cleanup") = 1
               /\ Count(f.trace, "upload") > 0
               /\ f.landed > 0 =>
                     f.error = "" /\ f.result = [status |-> "success", dest |-> f.dest_path]
               /\ f.landed = 0 =>
                     f.error \in {"OSError", "ClientError"} /\ f.result.status = ""
               /\ f.tmpfiles \cap {f.tmp_src, f.tmp_out} # {} =>
                     f.error = "" <=> f.landed > 0

\* C25 witness: tmp_src could not be removed, tmp_out was removed all the
\* same, and the call returns success.
C25_Witness ==
    \E p \in Procs :
        /\ frame[p].pc = "done"
        /\ Count(frame[p].trace, "cleanup") = 1
        /\ frame[p].tmp_src \in frame[p].tmpfiles
        /\ frame[p].tmp_out \notin frame[p].tmpfiles
        /\ frame[p].result.status = "success"

\* C26. Deriving the destination path is a pure function of the source path
\* and the destination spec: it reads no storage state and creates or changes
\* nothing on the local filesystem or in object storage, so a run_once call
\* that ends skipped or fails before the upload leaves the destination
\* backend with exactly the files and directories it had before the call.
C26_DerivationCreatesNothing ==
    \A p \in Procs :
        LET f == frame[p]
        IN  (\/ f.pc = "check"
             \/ f.pc = "done" /\ Count(f.trace, "upload") = 0) =>
               /\ dest_obj = f.dest_before
               /\ dest_dir = f.dir_before

\* C27. With overwrite false run_once never writes over an existing
\* destination object: no upload of such a run lands on a path that holds an
\* object, also when two run_once calls for the same destination interleave;
\* of two interleaved runs that start from an absent destination at most one
\* returns success.
C27_NoOverwriteWithoutFlag ==
    ~runner.overwrite =>
        /\ \A p \in RaceProcs : frame[p].landed <= 1
        /\ Cardinality({p \in RaceProcs : frame[p].result.status = "success"}) <= 1

\* The call ended with an exception raised before the upload step: by the
\* source check, the existence probe, the download or the transform.
RaisedBeforeUpload(f) ==
    /\ f.pc = "done"
    /\ \/ f.error \in {"ValueError", "FileNotFoundError", "ParserError"}
       \/ f.error = "ClientError" /\ (f.probe = "error" \/ f.dl.state = "raised")

\* C28. A run_once call that raises before the upload step (configuration
\* error, existence-probe error, download failure after the retry budget,
\* transform failure) never invokes dest_adapter.upload, and the object at
\* the derived destination path is exactly what it was before the call, with
\* overwrite true as well as false.
C28_EarlyFailureLeavesObject ==
    \A p \in Procs :
        LET f == frame[p]
        IN  /\ RaisedBeforeUpload(f) =>
                  /\ Count(f.trace, "upload") = 0
                  /\ f.ul = RetryIdle
                  /\ f.landed = 0
                  /\ f.result.status = ""
                  /\ dest_obj = f.dest_before
            /\ (f.pc = "done" /\ f.error # "" /\ Count(f.trace, "upload") = 0) =>
                  RaisedBeforeUpload(f)

\* C28 witness: with overwrite true and an object at the destination, the
\* download used up its retries; the object is still the old one.
C28_Witness ==
    \E p \in Procs :
        /\ RaisedBeforeUpload(frame[p])
        /\ runner.overwrite
        /\ frame[p].dl.state = "raised"
        /\ frame[p].dest_before = "old"
        /\ dest_obj = "old"

\* The call has passed its source check and its idempotency check.
Probed(f) ==
    f.pc \in {"stage", "download", "transform", "serialize", "fallback",
              "upload", "write", "cleanup"}
       \/ (f.pc = "done" /\ f.dest_path # <<>>)

\* C29. run_once invokes dest_adapter.exists exactly once per call, after the
\* source configuration check and before any temp file is created or any
\* download attempted, whatever overwrite is; with overwrite true the value
\* the probe returns does not change the outcome (the run goes on either
\* way), but an error raised by the probe ends the run with that error and
\* with no download, transform or upload.
C29_ProbeOncePerCall ==
    \A p \in Procs :
        LET f == frame[p]
        IN  /\ Count(f.trace, "exists") <= 1
            /\ Probed(f) =>
                  /\ Count(f.trace, "exists") = 1
                  /\ Len(f.trace) >= 3
                  /\ SubSeq(f.trace, 1, 3) = <<"resolve", "derive", "exists">>
                  /\ f.probe \in {"true", "false", "error"}
            /\ f.pc \in {"start", "derive", "check"} =>
                  f.tmpfiles = {} /\ Count(f.trace, "download") = 0
            /\ (runner.overwrite /\ f.probe \in {"true", "false"}) =>
                  /\ f.result.status # "skipped"
                  /\ f.pc # "done" \/ Count(f.trace, "mkstemp") = 1
            /\ f.probe = "error" =>
                  /\ f.pc = "done"
                  /\ f.error = "ClientError"
                  /\ f.result.status = ""
                  /\ Untouched(p)

\* C29 witness: overwrite is true, the probe found the object, and the run
\* went through to success all the same.
C29_Witness ==
    \E p \in Procs :
        /\ runner.overwrite
        /\ frame[p].probe = "true"
        /\ Count(frame[p].trace, "exists") = 1
        /\ frame[p].pc = "done"
        /\ frame[p].result.status = "success"

\* The answer that ended the loop, "" when no request was made.
LastTool ==
    IF task.outputs = <<>> THEN "" ELSE task.outputs[Len(task.outputs)].tool

\* What holds at every point of Task.start: one planning request, at most
\* max_loops loop requests, and on return finished with the status message of
\* the exit taken.
StartBounded ==
    /\ task.planned = (IF task.pc = "new" THEN 0 ELSE 1)
    /\ task.requests <= task.max_loops
    /\ task.loop_count <= task.max_loops
    /\ task.requests = task.loop_count
    /\ Len(task.outputs) = task.requests
    /\ task.pc = "exited" =>
          /\ task.finished
          /\ task.status_message # <<>>
          /\ LastTool = "attempt_completion" <=>
                task.status_message = StatusCompleted(task.loop_count)
          /\ LastTool = "text" <=>
                task.status_message = StatusNoCompletion(task.loop_count)
          /\ LastTool \notin {"attempt_completion", "text"} <=>
                task.status_message = StatusMaxLoops(task.max_loops)
          /\ task.status_message = StatusMaxLoops(task.max_loops) =>
                task.loop_count = task.max_loops /\ Len(task.logs) = 1
          /\ task.max_loops = 0 =>
                task.requests = 0 /\ task.status_message = StatusMaxLoops(0)

\* C30. Task.start terminates for every sequence of LLM outputs: it issues
\* one planning request and at most max_loops loop requests, loop_count never
\* exceeds max_loops, and when start returns finished is True and the status
\* message is non-empty and names exactly one of the three exits (explicit
\* completion, unrecognised output, max_loops reached); with max_loops = 0 no
\* loop request is made and the max_loops exit is taken.
C30_StartTerminates ==
    /\ []StartBounded
    /\ <>(task.pc \in {"exited", "raised"})

\* C30 witness: max_loops = 0, start has returned by the max_loops exit with
\* no loop request made.
C30_Witness ==
    /\ task.pc = "exited"
    /\ task.max_loops = 0
    /\ task.planned = 1
    /\ task.requests = 0
    /\ task.finished
    /\ task.status_message = StatusMaxLoops(0)

====
